---- MODULE Spec2Model ----
(***************************************************************************)
(* The transform-application engine of albumentations.core:                *)
(* BasicTransform.__call__ (activation, parameter resolution, dispatch),   *)
(* the target router, keep_memory (provenance), the Dual / ImageOnly /     *)
(* NoOp variants, and the helper to_tuple.                                 *)
(*                                                                         *)
(* Python values are represented as follows.                               *)
(*   - an artifact object lives in `heap` under its identity (a string);   *)
(*     a bundle value is an identity or "None";                            *)
(*   - an object has a kind (its Python type), a data payload, and the     *)
(*     attribute `transforms`, present (has = TRUE) or not;                *)
(*   - a raster is a sequence of rows of pixels, a box list a sequence of  *)
(*     boxes, a list of masks a sequence of rasters;                       *)
(*   - a dict of the code (params, targets, _additional_targets) is a      *)
(*     function whose domain is its key set; kwargs, whose order the       *)
(*     dispatch loop follows, is a sequence of <<key, value>> pairs.       *)
(***************************************************************************)
EXTENDS Integers, Sequences, FiniteSets, TLC

VARIABLES
    self,                \* the transform: class, leaves, p, always_apply
    additional_targets,  \* self._additional_targets
    heap,                \* the caller's artifact objects
    pre,                 \* heap as it was when the last __call__ began
    kwargs,              \* the bundle of the last __call__
    force_apply,         \* its force_apply argument
    draw,                \* what random.random() returned, in units of 1/PScale
    draws,               \* how many times random.random() was called in it
    active,              \* whether it activated
    res,                 \* the bundle it returned (<<>> when it raised)
    err,                 \* the exception it raised, "none" when it returned
    errkey,              \* position in kwargs of the key being dispatched when
                         \* it raised; 0 when it raised before the dispatch loop
    tt,                  \* the last to_tuple call: arguments and outcome
    bx                   \* the last apply_to_bboxes / apply_to_keypoints call

vars == <<self, additional_targets, heap, pre, kwargs, force_apply, draw, draws,
          active, res, err, errkey, tt, bx>>

callvars == <<self, additional_targets, heap, pre, kwargs, force_apply, draw,
              draws, active, res, err, errkey>>

(***************************************************************************)
(* Bounds of the model.                                                    *)
(***************************************************************************)
\* probabilities and draws are multiples of 1/PScale
PScale == 2
\* a history this long is not extended further
MaxHistory == 2
\* keys in one bundle
MaxKeys == 2
\* scalars given to to_tuple are in -MaxScalar..MaxScalar
MaxScalar == 2
\* boxes (keypoints) in one list, and payload fields after the first four
MaxBoxes == 2
MaxTail == 2

\* cv2.INTER_NEAREST
INTER_NEAREST == 0

None == "None"

(***************************************************************************)
(* dict helpers                                                            *)
(***************************************************************************)
\* dict(a, **b) and a.update(b)
DictUpdate(a, b) ==
    [k \in (DOMAIN a) \cup (DOMAIN b) |-> IF k \in DOMAIN b THEN b[k] ELSE a[k]]

EmptyDict == [k \in {} |-> 0]

\* the keys of kwargs, and kwargs[k]
KwKeys(kw) == {kw[i][1] : i \in 1..Len(kw)}
KwGet(kw, k) == kw[CHOOSE i \in 1..Len(kw) : kw[i][1] = k][2]

(***************************************************************************)
(* to_tuple.  param is None, a scalar (v), a list or tuple (s) or a value   *)
(* of another type; low and bias are None or a number.                     *)
(***************************************************************************)
NoneArg == [some |-> FALSE, v |-> 0]
Some(x) == [some |-> TRUE, v |-> x]

Raise(e) == [err |-> e, isNone |-> FALSE, val |-> <<>>]
Return(tuple) == [err |-> "none", isNone |-> FALSE, val |-> tuple]

\* to_tuple pairing low and param in the order given
to_tuple_unordered(param, low, bias) ==
    IF low.some /\ bias.some THEN Raise("ValueError")
    ELSE IF param.type = "None" THEN [err |-> "none", isNone |-> TRUE, val |-> <<>>]
    ELSE IF param.type \notin {"scalar", "seq"} THEN Raise("ValueError")
    ELSE LET tup == IF param.type = "seq" THEN param.s
                    ELSE IF low.some THEN <<low.v, param.v>>
                    ELSE <<-param.v, param.v>>
         IN Return(IF bias.some THEN [i \in 1..Len(tup) |-> bias.v + tup[i]] ELSE tup)

to_tuple(param, low, bias) ==
    IF low.some /\ bias.some THEN Raise("ValueError")
    ELSE IF param.type = "None" THEN [err |-> "none", isNone |-> TRUE, val |-> <<>>]
    ELSE IF param.type \notin {"scalar", "seq"} THEN Raise("ValueError")
    ELSE LET tup == IF param.type = "seq" THEN param.s
                    ELSE IF ~low.some THEN <<-param.v, param.v>>
                    ELSE IF low.v < param.v THEN <<low.v, param.v>>
                    ELSE <<param.v, low.v>>
         IN Return(IF bias.some THEN [i \in 1..Len(tup) |-> bias.v + tup[i]] ELSE tup)

(***************************************************************************)
(* Artifact objects.  Obj holds what no operation of the engine changes:   *)
(* the type and the payload; the heap holds the attribute `transforms`.    *)
(***************************************************************************)
Obj ==
    [nd |-> [kind |-> "ndarray",         data |-> << <<1, 2>> >>],
     ta |-> [kind |-> "TransformsArray", data |-> << <<3>>, <<4>> >>],
     ma |-> [kind |-> "MaskedArray",     data |-> << <<5>> >>],
     ms |-> [kind |-> "list",            data |-> << << <<6>> >>, << <<7>> >> >>],
     ls |-> [kind |-> "list",            data |-> << <<0, 0, 1, 1, 8>> >>],
     tl |-> [kind |-> "TransformsList",
             data |-> << <<0, 0, 1, 1>>, <<0, 1, 2, 2, 8, 9>> >>],
     tp |-> [kind |-> "tuple",           data |-> << <<0, 0, 1, 1, 8>> >>]]

Objects == DOMAIN Obj

ArrayKinds == {"ndarray", "TransformsArray", "MaskedArray"}

\* what hasattr(quant, 'shape') is
HasShape(o) == o.kind \in ArrayKinds

NoneVal == [ref |-> None, kind |-> "NoneType", data |-> <<>>]

\* the value an apply-variant returns when it returns its argument itself
SameVal(id) == [ref |-> id, kind |-> Obj[id].kind, data |-> Obj[id].data]

\* a new plain object built by an apply-variant
FreshVal(kind, data) == [ref |-> "fresh", kind |-> kind, data |-> data]

(***************************************************************************)
(* Provenance: BasicTransform.keep_memory                                  *)
(***************************************************************************)
\* quant.transforms = [] succeeds: instances with a __dict__
Attachable(o) == o.kind = "MaskedArray"

\* isinstance(quant, np.ndarray) / isinstance(quant, list), for the objects
\* that reach the inner except branch
Wrappable(o) == o.kind \in {"ndarray", "list"}

Entry(t, params) == [transform |-> t, params |-> params]

\* keep_memory assigning a new list in place of the append
keep_memory_reset(t, h, quant, params) ==
    IF h[quant].has \/ Obj[quant].kind = "MaskedArray"
    THEN [heap |-> [h EXCEPT ![quant].has = TRUE,
                             ![quant].transforms = <<[transform |-> t,
                                                      params |-> params]>>],
          err |-> "none"]
    ELSE IF Obj[quant].kind \in {"ndarray", "list"}
    THEN [heap |-> h, err |-> "none"]
    ELSE [heap |-> h, err |-> "AttributeError"]

\* The outcome of keep_memory(quant, **params): the heap after it and the
\* exception it raised.  A wrapper made by TransformsArray(quant) or
\* TransformsList(quant) is bound to the local name only: the entry goes to
\* the wrapper and the caller's object is left as it was.
keep_memory(t, h, quant, params) ==
    LET o == Obj[quant] IN
    IF h[quant].has
    THEN [heap |-> [h EXCEPT ![quant].transforms = Append(@, Entry(t, params))],
          err |-> "none"]
    ELSE IF Attachable(o)
    THEN [heap |-> [h EXCEPT ![quant].has = TRUE,
                             ![quant].transforms = <<Entry(t, params)>>],
          err |-> "none"]
    ELSE IF Wrappable(o)
    THEN [heap |-> h, err |-> "none"]
    ELSE [heap |-> h, err |-> "AttributeError"]

(***************************************************************************)
(* Leaf operations.  BasicTransform.apply, DualTransform.apply_to_bbox and *)
(* apply_to_keypoint raise NotImplementedError; NoOp returns its argument; *)
(* a transform with impl = TRUE is a subclass that overrides them.         *)
(***************************************************************************)
\* bbox[:4] and bbox[4:]
Head4(b) == SubSeq(b, 1, IF Len(b) < 4 THEN Len(b) ELSE 4)
Tail4(b) == SubSeq(b, 5, Len(b))

\* the pixel operation of an overriding subclass: every pixel is raised by
\* one, and by one more under an interpolation other than nearest
Pixels(data, params) ==
    LET k == IF "interpolation" \in DOMAIN params
                  /\ params["interpolation"] # INTER_NEAREST THEN 2 ELSE 1
    IN [i \in 1..Len(data) |-> [j \in 1..Len(data[i]) |-> data[i][j] + k]]

\* the box primitive of an overriding subclass: a horizontal flip
Flip(b, params) == <<params["cols"] - b[3], b[2], params["cols"] - b[1], b[4]>>

\* self.apply(img, **params)
apply(t, img, params) ==
    IF t.cls = "NoOp" THEN [err |-> "none", val |-> img]
    ELSE IF t.impl
    THEN [err |-> "none", val |-> FreshVal("ndarray", Pixels(img.data, params))]
    ELSE [err |-> "NotImplementedError", val |-> NoneVal]

\* self.apply_to_bbox(bbox, **params), on the fields of the box
apply_to_bbox(t, bbox, params) ==
    IF t.cls = "NoOp" THEN [err |-> "none", val |-> bbox]
    ELSE IF t.impl THEN [err |-> "none", val |-> Flip(bbox, params)]
    ELSE [err |-> "NotImplementedError", val |-> <<>>]

\* self.apply_to_keypoint(keypoint, **params)
apply_to_keypoint(t, keypoint, params) ==
    IF t.cls = "NoOp" THEN [err |-> "none", val |-> keypoint]
    ELSE IF t.impl
    THEN [err |-> "none",
          val |-> <<params["cols"] - keypoint[1], keypoint[2], keypoint[3],
                    keypoint[4]>>]
    ELSE [err |-> "NotImplementedError", val |-> <<>>]

(***************************************************************************)
(* DualTransform: the composition rules                                    *)
(***************************************************************************)
\* apply_to_bboxes returning the transformed heads without bbox[4:]
apply_to_bboxes_heads(t, bboxes, params) ==
    LET out == [i \in 1..Len(bboxes) |-> apply_to_bbox(t, Head4(bboxes[i]), params)]
    IN IF \E i \in 1..Len(bboxes) : out[i].err # "none"
       THEN [err |-> "NotImplementedError", val |-> <<>>]
       ELSE [err |-> "none", val |-> [i \in 1..Len(bboxes) |-> out[i].val]]

\* [self.apply_to_bbox(bbox[:4], **params) + bbox[4:] for bbox in bboxes],
\* on the list's elements; the first element whose primitive raises ends it
apply_to_bboxes(t, bboxes, params) ==
    LET out == [i \in 1..Len(bboxes) |-> apply_to_bbox(t, Head4(bboxes[i]), params)]
        bad == {i \in 1..Len(bboxes) : out[i].err # "none"}
    IN IF bad # {}
       THEN [err |-> out[CHOOSE i \in bad : \A j \in bad : i <= j].err, val |-> <<>>]
       ELSE [err |-> "none",
             val |-> [i \in 1..Len(bboxes) |-> out[i].val \o Tail4(bboxes[i])]]

apply_to_keypoints(t, keypoints, params) ==
    LET out == [i \in 1..Len(keypoints) |->
                    apply_to_keypoint(t, Head4(keypoints[i]), params)]
        bad == {i \in 1..Len(keypoints) : out[i].err # "none"}
    IN IF bad # {}
       THEN [err |-> out[CHOOSE i \in bad : \A j \in bad : i <= j].err, val |-> <<>>]
       ELSE [err |-> "none",
             val |-> [i \in 1..Len(keypoints) |-> out[i].val \o Tail4(keypoints[i])]]

\* DualTransform.apply_to_mask, and NoOp's override of it
apply_to_mask(t, img, params) ==
    IF t.cls = "NoOp" THEN [err |-> "none", val |-> img]
    ELSE apply(t, img,
               [k \in DOMAIN params |->
                   IF k = "interpolation" THEN INTER_NEAREST ELSE params[k]])

\* [self.apply_to_mask(mask, **params) for mask in masks]
apply_to_masks(t, masks, params) ==
    LET out == [i \in 1..Len(masks.data) |->
                   apply_to_mask(t, [ref |-> "elem", kind |-> "ndarray",
                                     data |-> masks.data[i]], params)]
        bad == {i \in 1..Len(masks.data) : out[i].err # "none"}
    IN IF bad # {}
       THEN [err |-> out[CHOOSE i \in bad : \A j \in bad : i <= j].err,
             val |-> NoneVal]
       ELSE [err |-> "none",
             val |-> FreshVal("list", [i \in 1..Len(masks.data) |-> out[i].val.data])]

(***************************************************************************)
(* The transform.  cls is the class of the source the instance derives     *)
(* from; impl says that it is a subclass overriding the leaf operations;   *)
(* deps says that the subclass also declares data-dependent targets.       *)
(***************************************************************************)
Variants ==
    { [cls |-> "DualTransform",      impl |-> FALSE, deps |-> FALSE],
      [cls |-> "DualTransform",      impl |-> TRUE,  deps |-> FALSE],
      [cls |-> "DualTransform",      impl |-> TRUE,  deps |-> TRUE],
      [cls |-> "ImageOnlyTransform", impl |-> TRUE,  deps |-> FALSE],
      [cls |-> "NoOp",               impl |-> FALSE, deps |-> FALSE] }

\* BasicTransform.__init__(always_apply, p), p in units of 1/PScale
Transforms ==
    { [cls |-> v.cls, impl |-> v.impl, deps |-> v.deps, p |-> p, always_apply |-> a] :
        v \in Variants, p \in 0..PScale, a \in BOOLEAN }

IsDual(t) == t.cls \in {"DualTransform", "NoOp"}

\* the instance attributes update_params looks for with hasattr: the
\* overriding spatial subclass is configured with linear interpolation
Attrs(t) ==
    IF t.cls = "DualTransform" /\ t.impl THEN [interpolation |-> 1] ELSE EmptyDict

\* BasicTransform.get_params
get_params(t) == EmptyDict

\* the targets_as_params property: [] unless the subclass declares some
targets_as_params(t) == IF t.deps THEN <<"bboxes">> ELSE <<>>

\* the target_dependence property: {} unless the subclass declares some
target_dependence(t) == IF t.deps THEN [bboxes |-> <<"mask">>] ELSE EmptyDict

\* get_params_dependent_on_targets: raises in BasicTransform; the declaring
\* subclass counts the boxes it is given (none for None)
get_params_dependent_on_targets(t, given) ==
    IF ~t.deps THEN [err |-> "NotImplementedError", params |-> EmptyDict]
    ELSE [err |-> "none",
          params |-> [n_boxes |-> IF given["bboxes"] = None THEN 0
                                  ELSE Len(Obj[given["bboxes"]].data)]]

\* the targets property of DualTransform (NoOp inherits it) and of
\* ImageOnlyTransform: canonical key -> apply-variant
targets(t) ==
    IF IsDual(t)
    THEN [image     |-> "_apply",
          mask      |-> "_apply_to_mask",
          masks     |-> "apply_to_masks",
          bboxes    |-> "_apply_to_bboxes",
          keypoints |-> "_apply_to_keypoints"]
    ELSE [image |-> "apply"]

\* _get_target_function looking up the key itself, the alias table ignored
get_target_function_noalias(t, at, key) ==
    IF t.cls \in {"DualTransform", "NoOp"}
    THEN IF key = "image" THEN "_apply"
         ELSE IF key = "mask" THEN "_apply_to_mask"
         ELSE IF key = "masks" THEN "apply_to_masks"
         ELSE IF key = "bboxes" THEN "_apply_to_bboxes"
         ELSE IF key = "keypoints" THEN "_apply_to_keypoints"
         ELSE "lambda"
    ELSE IF key = "image" THEN "apply" ELSE "lambda"

\* BasicTransform._get_target_function: "lambda" is lambda x, **p: x
_get_target_function(t, at, key) ==
    LET transform_key == IF key \in DOMAIN at THEN at[key] ELSE key
    IN IF transform_key \in DOMAIN targets(t)
       THEN targets(t)[transform_key]
       ELSE "lambda"

\* update_params reading the raster with kwargs.get('image') and leaving
\* the geometry at 0 when there is none
update_params_get(t, params, kw) ==
    IF "image" \in KwKeys(kw) /\ KwGet(kw, "image") # None
    THEN [err |-> "none",
          params |-> DictUpdate(params,
                                [cols |-> Len(Obj[KwGet(kw, "image")].data[1]),
                                 rows |-> Len(Obj[KwGet(kw, "image")].data)])]
    ELSE [err |-> "none", params |-> DictUpdate(params, [cols |-> 0, rows |-> 0])]

\* BasicTransform.update_params: kwargs['image'].shape[1] and .shape[0]
update_params(t, params, kw) ==
    LET p1 == IF "interpolation" \in DOMAIN Attrs(t)
              THEN DictUpdate(params, [interpolation |-> Attrs(t)["interpolation"]])
              ELSE params
        p2 == IF "fill_value" \in DOMAIN Attrs(t)
              THEN DictUpdate(p1, [fill_value |-> Attrs(t)["fill_value"]])
              ELSE p1
    IN IF "image" \notin KwKeys(kw)
       THEN [err |-> "KeyError", params |-> p2]
       ELSE IF KwGet(kw, "image") = None \/ ~HasShape(Obj[KwGet(kw, "image")])
       THEN [err |-> "AttributeError", params |-> p2]
       ELSE LET img == Obj[KwGet(kw, "image")]
            IN [err |-> "none",
                params |-> DictUpdate(p2, [cols |-> Len(img.data[1]),
                                           rows |-> Len(img.data)])]

\* target_function(arg, **params) for the apply-variant named fn: the heap
\* after it, the value it returned and the exception it raised
Invoke(fn, t, h, arg, params) ==
    IF fn = "lambda"
    THEN [heap |-> h, err |-> "none", val |-> SameVal(arg)]
    ELSE IF fn = "apply"
    THEN LET a == apply(t, SameVal(arg), params)
         IN [heap |-> h, err |-> a.err, val |-> a.val]
    ELSE IF fn = "apply_to_masks"
    THEN LET a == apply_to_masks(t, SameVal(arg), params)
         IN [heap |-> h, err |-> a.err, val |-> a.val]
    ELSE LET km == keep_memory(t, h, arg, params)
         IN IF km.err # "none"
            THEN [heap |-> km.heap, err |-> km.err, val |-> NoneVal]
            ELSE IF fn = "_apply"
            THEN LET a == apply(t, SameVal(arg), params)
                 IN [heap |-> km.heap, err |-> a.err, val |-> a.val]
            ELSE IF fn = "_apply_to_mask"
            THEN LET a == apply_to_mask(t, SameVal(arg), params)
                 IN [heap |-> km.heap, err |-> a.err, val |-> a.val]
            ELSE IF fn = "_apply_to_bboxes"
            THEN LET a == apply_to_bboxes(t, Obj[arg].data, params)
                 IN [heap |-> km.heap, err |-> a.err,
                     val |-> IF a.err = "none" THEN FreshVal("list", a.val)
                             ELSE NoneVal]
            ELSE LET a == apply_to_keypoints(t, Obj[arg].data, params)
                 IN [heap |-> km.heap, err |-> a.err,
                     val |-> IF a.err = "none" THEN FreshVal("list", a.val)
                             ELSE NoneVal]

\* self.target_dependence.get(key, [])
DependenceKeys(t, key) ==
    LET dkeys == IF key \in DOMAIN target_dependence(t)
                 THEN target_dependence(t)[key] ELSE <<>>
    IN {dkeys[j] : j \in 1..Len(dkeys)}

\* {k: kwargs[k] for k in self.target_dependence.get(key, [])}, where every
\* such k is in kwargs
Dependencies(t, kw, key) == [k \in DependenceKeys(t, key) |-> KwGet(kw, k)]

\* the loop of __call__ leaving the None-valued keys out of its result
RECURSIVE Dispatch_dropnull(_, _, _, _, _, _, _)
Dispatch_dropnull(t, at, kw, params, i, h, acc) ==
    IF i > Len(kw)
    THEN [heap |-> h, res |-> acc, err |-> "none", errkey |-> 0]
    ELSE IF kw[i][2] = None
    THEN Dispatch_dropnull(t, at, kw, params, i + 1, h, acc)
    ELSE IF ~(DependenceKeys(t, kw[i][1]) \subseteq KwKeys(kw))
    THEN [heap |-> h, res |-> <<>>, err |-> "KeyError", errkey |-> i]
    ELSE LET o == Invoke(_get_target_function(t, at, kw[i][1]), t, h, kw[i][2],
                         DictUpdate(params, Dependencies(t, kw, kw[i][1])))
         IN IF o.err # "none"
            THEN [heap |-> o.heap, res |-> <<>>, err |-> o.err, errkey |-> i]
            ELSE Dispatch_dropnull(t, at, kw, params, i + 1, o.heap,
                                   Append(acc, <<kw[i][1], o.val>>))

\* the loop of __call__ over kwargs.items(), from position i on
RECURSIVE Dispatch(_, _, _, _, _, _, _)
Dispatch(t, at, kw, params, i, h, acc) ==
    IF i > Len(kw)
    THEN [heap |-> h, res |-> acc, err |-> "none", errkey |-> 0]
    ELSE LET key == kw[i][1]
             arg == kw[i][2]
         IN IF arg = None
            THEN Dispatch(t, at, kw, params, i + 1, h, Append(acc, <<key, NoneVal>>))
            ELSE IF ~(DependenceKeys(t, key) \subseteq KwKeys(kw))
            THEN [heap |-> h, res |-> <<>>, err |-> "KeyError", errkey |-> i]
            ELSE LET o == Invoke(_get_target_function(t, at, key), t, h, arg,
                                 DictUpdate(params, Dependencies(t, kw, key)))
                 IN IF o.err # "none"
                    THEN [heap |-> o.heap, res |-> <<>>, err |-> o.err, errkey |-> i]
                    ELSE Dispatch(t, at, kw, params, i + 1, o.heap,
                                  Append(acc, <<key, o.val>>))

\* the bundle as __call__ returns it when it does not activate
Unchanged(kw) ==
    [i \in 1..Len(kw) |->
        <<kw[i][1], IF kw[i][2] = None THEN NoneVal ELSE SameVal(kw[i][2])>>]

\* the activation test without its force_apply disjunct
Activates_noforce(t, fa, d) == (d < t.p) \/ t.always_apply

\* the activation test with <= in place of <
Activates_le(t, fa, d) == (d <= t.p) \/ t.always_apply \/ fa

\* whether __call__ activates: (random.random() < self.p) or
\* self.always_apply or force_apply
Activates(t, fa, d) == (d < t.p) \/ t.always_apply \/ fa

\* the shared parameter set of an active invocation: get_params, then
\* update_params, then the parameters that depend on the declared targets
Params(t, kw) ==
    LET up   == update_params(t, get_params(t), kw)
        tap  == targets_as_params(t)
        tset == {tap[j] : j \in 1..Len(tap)}
    IN IF up.err # "none" \/ tap = <<>> THEN up
       ELSE IF ~(tset \subseteq KwKeys(kw))
       THEN [err |-> "KeyError", params |-> up.params]
       ELSE LET dp == get_params_dependent_on_targets(
                          t, [k \in tset |-> KwGet(kw, k)])
            IN [err |-> dp.err, params |-> DictUpdate(up.params, dp.params)]

\* __call__ collecting the declared targets only after the dispatch loop
call_late(t, at, h, fa, d, kw) ==
    IF ~((d < t.p) \/ t.always_apply \/ fa)
    THEN [active |-> FALSE, heap |-> h, res |-> Unchanged(kw), err |-> "none",
          errkey |-> 0]
    ELSE LET up == update_params(t, get_params(t), kw)
             ps == Params(t, kw)
         IN IF up.err # "none"
            THEN [active |-> TRUE, heap |-> h, res |-> <<>>, err |-> up.err,
                  errkey |-> 0]
            ELSE LET o == Dispatch(t, at, kw,
                                   IF ps.err = "none" THEN ps.params ELSE up.params,
                                   1, h, <<>>)
                 IN IF o.err = "none" /\ ps.err # "none"
                    THEN [active |-> TRUE, heap |-> o.heap, res |-> <<>>,
                          err |-> ps.err, errkey |-> 0]
                    ELSE [active |-> TRUE, heap |-> o.heap, res |-> o.res,
                          err |-> o.err, errkey |-> o.errkey]

\* BasicTransform.__call__(force_apply, **kwargs) with random.random() = d
call(t, at, h, fa, d, kw) ==
    IF ~Activates(t, fa, d)
    THEN [active |-> FALSE, heap |-> h, res |-> Unchanged(kw), err |-> "none",
          errkey |-> 0]
    ELSE LET ps == Params(t, kw)
         IN IF ps.err # "none"
            THEN [active |-> TRUE, heap |-> h, res |-> <<>>, err |-> ps.err,
                  errkey |-> 0]
            ELSE LET o == Dispatch(t, at, kw, ps.params, 1, h, <<>>)
                 IN [active |-> TRUE, heap |-> o.heap, res |-> o.res,
                     err |-> o.err, errkey |-> o.errkey]

(***************************************************************************)
(* The caller's world: the artifact objects and the bundles built of them  *)
(***************************************************************************)
\* an entry left by a transform applied earlier in the pipeline
Earlier ==
    Entry([cls |-> "NoOp", impl |-> FALSE, deps |-> FALSE, p |-> PScale,
           always_apply |-> TRUE], [cols |-> 1, rows |-> 2])

\* the attribute `transforms` of every object before the first invocation
Heap0 ==
    [o \in Objects |->
        IF o = "ta" THEN [has |-> TRUE, transforms |-> <<Earlier>>]
        ELSE IF o = "tl" THEN [has |-> TRUE, transforms |-> <<>>]
        ELSE [has |-> FALSE, transforms |-> <<>>]]

\* the values a caller passes under each key
Pool ==
    [image     |-> {None, "nd", "ta"},
     mask      |-> {None, "ma"},
     masks     |-> {"ms"},
     bboxes    |-> {"tl", "tp"},
     keypoints |-> {"ls"},
     image2    |-> {"ma"}]

\* the keyword arguments in the order a call site lists them
KeyOrder == <<"image", "mask", "masks", "bboxes", "keypoints", "image2">>

Keys == {KeyOrder[i] : i \in 1..Len(KeyOrder)}

\* the sequence of the positions of KeyOrder that are in S, ascending
RECURSIVE Ascending(_)
Ascending(S) ==
    IF S = {} THEN <<>>
    ELSE LET m == CHOOSE x \in S : \A y \in S : x <= y
         IN <<m>> \o Ascending(S \ {m})

\* the bundles with the keys at the positions S of KeyOrder
BundlesOn(S) ==
    LET a == Ascending(S)
    IN { [i \in 1..Len(a) |-> <<KeyOrder[a[i]], f[a[i]]>>] :
           f \in { g \in [S -> UNION {Pool[k] : k \in Keys}] :
                     \A x \in S : g[x] \in Pool[KeyOrder[x]] } }

\* kwargs: up to MaxKeys of the keys, each with a value of its pool
Bundles ==
    UNION { BundlesOn(S) :
              S \in {T \in SUBSET (1..Len(KeyOrder)) : Cardinality(T) <= MaxKeys} }

\* the alias tables a caller registers
AliasTables == {EmptyDict, [image2 |-> "image", mask |-> "depth"]}

(***************************************************************************)
(* State machine                                                           *)
(***************************************************************************)
IdleTT == [called |-> FALSE]
IdleBX == [called |-> FALSE]

\* the state after BasicTransform.__init__ of a transform of the set T
InitCall(T) ==
    /\ self \in T
    /\ additional_targets = EmptyDict
    /\ heap = Heap0
    /\ pre = Heap0
    /\ kwargs = <<>>
    /\ force_apply = FALSE
    /\ draw = 0
    /\ draws = 0
    /\ active = FALSE
    /\ res = <<>>
    /\ err = "none"
    /\ errkey = 0

\* one instance of every class variant, with p = 1/PScale and always_apply
\* left at its default
Init ==
    /\ InitCall({t \in Transforms : t.p = 1 /\ ~t.always_apply})
    /\ tt = IdleTT
    /\ bx = IdleBX

\* every (p, always_apply) of NoOp and of the image-only subclass
InitActivation ==
    /\ InitCall({t \in Transforms : t.cls = "NoOp" \/ ~IsDual(t)})
    /\ tt = IdleTT
    /\ bx = IdleBX

\* no invocation has returned a bundle the caller still holds
Idle == draws = 0

\* BasicTransform.add_targets, called between invocations
add_targets(at) ==
    /\ Idle
    /\ additional_targets' = at
    /\ UNCHANGED <<self, heap, pre, kwargs, force_apply, draw, draws, active, res,
                   err, errkey, tt, bx>>

\* one invocation self(force_apply=fa, **kw), random.random() returning
\* d / PScale
Call(fa, d, kw) ==
    /\ Idle
    /\ \A o \in Objects : Len(heap[o].transforms) < MaxHistory
    /\ LET out == call(self, additional_targets, heap, fa, d, kw)
       IN /\ heap' = out.heap
          /\ res' = out.res
          /\ err' = out.err
          /\ errkey' = out.errkey
          /\ active' = out.active
    /\ pre' = heap
    /\ kwargs' = kw
    /\ force_apply' = fa
    /\ draw' = d
    /\ draws' = 1
    /\ UNCHANGED <<self, additional_targets, tt, bx>>

\* the caller is done with the returned bundle (or the exception) and goes
\* on to its next invocation; the artifact objects stay as they are
Discard ==
    /\ ~Idle
    /\ pre' = heap
    /\ kwargs' = <<>>
    /\ force_apply' = FALSE
    /\ draw' = 0
    /\ draws' = 0
    /\ active' = FALSE
    /\ res' = <<>>
    /\ err' = "none"
    /\ errkey' = 0
    /\ UNCHANGED <<self, additional_targets, heap, tt, bx>>

Next ==
    \/ \E at \in AliasTables : add_targets(at)
    \/ \E fa \in BOOLEAN, d \in 0..(PScale - 1), kw \in Bundles : Call(fa, d, kw)
    \/ Discard

Spec == Init /\ [][Next]_vars

SpecActivation == InitActivation /\ [][Next]_vars

(***************************************************************************)
(* Activation                                                              *)
(***************************************************************************)
\* C1: an invocation draws at most once and activates iff force_apply or
\* always_apply or draw < p; when it does not activate it returns the bundle
\* with every key and value as given, no history changes and nothing is
\* raised, whether or not 'image' is among the keys.
C1_Activation ==
    ~Idle =>
        /\ draws <= 1
        /\ active <=> (force_apply \/ self.always_apply \/ draw < self.p)
        /\ ~(force_apply \/ self.always_apply \/ draw < self.p) =>
              /\ err = "none"
              /\ res = Unchanged(kwargs)
              /\ heap = pre

\* an inactive invocation on a bundle without 'image' has returned
C1_Witness ==
    /\ ~Idle
    /\ ~active
    /\ kwargs # <<>>
    /\ "image" \notin KwKeys(kwargs)
    /\ res = Unchanged(kwargs)

\* C2 as stated: with p = 0 every invocation returns the bundle as given and
\* changes no history, whatever always_apply and force_apply are.
C2_Original ==
    (~Idle /\ self.p = 0) =>
        /\ err = "none"
        /\ res = Unchanged(kwargs)
        /\ heap = pre

\* C2, amended: with p = 0, always_apply false and force_apply false, every
\* invocation returns the bundle as given and changes no history.
C2_ZeroProbability ==
    (~Idle /\ self.p = 0 /\ ~self.always_apply /\ ~force_apply) =>
        /\ err = "none"
        /\ res = Unchanged(kwargs)
        /\ heap = pre

\* such an invocation has returned a bundle that holds a mask to which a
\* forced invocation before it had attached a history
C2_Witness ==
    /\ ~Idle
    /\ self.p = 0 /\ ~self.always_apply /\ ~force_apply
    /\ \E i \in 1..Len(kwargs) :
          /\ kwargs[i][2] = "ma"
          /\ heap["ma"].has

(***************************************************************************)
(* Dispatch, routing and provenance                                        *)
(***************************************************************************)
IsPrefix(a, b) == Len(a) <= Len(b) /\ SubSeq(b, 1, Len(a)) = a

\* the positions of kwargs that hold None
NullAt == {i \in 1..Len(kwargs) : kwargs[i][2] = None}

\* the artifact objects at the positions I of kwargs
ObjectsAt(I) == {kwargs[i][2] : i \in I \ NullAt}

\* 'image' holds a raster
RasterGiven ==
    /\ "image" \in KwKeys(kwargs)
    /\ KwGet(kwargs, "image") # None

\* the history of a returned artifact, an absent one counting as empty
HistoryOf(v) == IF v.ref \in Objects THEN heap[v.ref].transforms ELSE <<>>

\* the kinds the claim counts as able to carry a history
CanCarry(o) ==
    pre[o].has \/ Obj[o].kind \in {"ndarray", "TransformsArray", "MaskedArray",
                                   "list", "TransformsList"}

\* C3: after a forced or always-applied invocation of a DualTransform with a
\* raster under 'image', the artifact returned under each of image, mask,
\* masks, bboxes, keypoints (when the one supplied is non-null and of a kind
\* that can carry history) has the history of the supplied one plus exactly
\* one last entry {transform: self, params: the shared parameters}.  Stated
\* for the invocations that return and for an empty alias table.
C3_ProvenanceGrows ==
    (/\ ~Idle
     /\ IsDual(self)
     /\ self.always_apply \/ force_apply
     /\ RasterGiven
     /\ additional_targets = EmptyDict
     /\ err = "none") =>
        \A i \in 1..Len(kwargs) :
            (/\ kwargs[i][1] \in {"image", "mask", "masks", "bboxes", "keypoints"}
             /\ kwargs[i][2] # None
             /\ CanCarry(kwargs[i][2])) =>
                HistoryOf(res[i][2]) =
                    Append(pre[kwargs[i][2]].transforms,
                           Entry(self, Params(self, kwargs).params))

\* the canonical name the router looks up for a key
Canonical(key) ==
    IF key \in DOMAIN additional_targets THEN additional_targets[key] ELSE key

\* what the apply-variant registered under the canonical name returns for the
\* artifact at position i, or that artifact itself when none is registered
Routed(i) ==
    LET key == kwargs[i][1]
        arg == kwargs[i][2]
    IN IF Canonical(key) \in DOMAIN targets(self)
       THEN Invoke(targets(self)[Canonical(key)], self, pre, arg,
                   DictUpdate(Params(self, kwargs).params,
                              Dependencies(self, kwargs, key))).val
       ELSE SameVal(arg)

\* C5 as stated: the routing rule, and an ImageOnlyTransform returning the
\* artifact of every key other than 'image' unchanged.
C5_Original ==
    (~Idle /\ active /\ err = "none") =>
        \A i \in 1..Len(kwargs) \ NullAt :
            /\ res[i][1] = kwargs[i][1]
            /\ res[i][2] = Routed(i)
            /\ (~IsDual(self) /\ kwargs[i][1] # "image") =>
                   res[i][2] = SameVal(kwargs[i][2])

\* C5, amended: every non-null key is served by the apply-variant registered
\* under its canonical name (the alias when the key is in the alias table,
\* the key itself otherwise), applied to the artifact stored under the key
\* itself, and by the identity when nothing is registered under that name;
\* an ImageOnlyTransform returns unchanged every artifact whose canonical
\* name is not 'image'.
C5_Routing ==
    (~Idle /\ active /\ err = "none") =>
        \A i \in 1..Len(kwargs) \ NullAt :
            /\ res[i][1] = kwargs[i][1]
            /\ res[i][2] = Routed(i)
            /\ (~IsDual(self) /\ Canonical(kwargs[i][1]) # "image") =>
                   res[i][2] = SameVal(kwargs[i][2])

\* an aliased key was served by the variant of 'image', on its own artifact,
\* next to an 'image' holding another object
C5_Witness ==
    /\ ~Idle /\ active /\ err = "none"
    /\ self.impl
    /\ \E i, j \in 1..Len(kwargs) :
          /\ kwargs[i][1] = "image2" /\ Canonical("image2") = "image"
          /\ kwargs[j][1] = "image" /\ kwargs[j][2] \notin {None, kwargs[i][2]}
          /\ res[i][2] = FreshVal("ndarray",
                                  Pixels(Obj[kwargs[i][2]].data,
                                         Params(self, kwargs).params))

\* C6 as stated, on the bundles that hold 'image' and nothing but null
\* values, where only a null value can be what fails: the active invocation
\* returns the same keys, each with null.
C6_Original ==
    (/\ ~Idle /\ active
     /\ "image" \in KwKeys(kwargs)
     /\ \A i \in 1..Len(kwargs) : kwargs[i][2] = None) =>
        /\ err = "none"
        /\ res = Unchanged(kwargs)

\* C6, amended: in an active invocation whose 'image' is a raster, no error
\* is raised at a null-valued key, no history changes but those of the
\* artifacts in the bundle, and when the invocation returns, the output has
\* the keys of the input, in their order, with null under every null-valued
\* key.
C6_NullPassThrough ==
    (~Idle /\ active /\ RasterGiven) =>
        /\ errkey # 0 => kwargs[errkey][2] # None
        /\ \A o \in Objects \ ObjectsAt(1..Len(kwargs)) : heap[o] = pre[o]
        /\ err = "none" =>
              /\ Len(res) = Len(kwargs)
              /\ \A i \in 1..Len(kwargs) :
                    /\ res[i][1] = kwargs[i][1]
                    /\ i \in NullAt => res[i][2] = NoneVal

\* an active invocation returned a bundle with a null next to a raster that
\* it recorded on
C6_Witness ==
    /\ ~Idle /\ active /\ err = "none"
    /\ NullAt # {}
    /\ heap # pre
    /\ \A i \in NullAt : res[i] = <<kwargs[i][1], NoneVal>>

\* C7 as stated: a DualTransform invoked on a bundle of 'bboxes' alone
\* raises KeyError, on every call.
C7_Original ==
    (~Idle /\ IsDual(self) /\ KwKeys(kwargs) = {"bboxes"}) => err = "KeyError"

\* C7, amended: a DualTransform invoked on a bundle of 'bboxes' alone raises
\* KeyError from update_params on every call that activates, before any key
\* is dispatched and any history touched.
C7_MissingRaster ==
    (~Idle /\ IsDual(self) /\ KwKeys(kwargs) = {"bboxes"} /\ active) =>
        /\ err = "KeyError"
        /\ errkey = 0
        /\ heap = pre

C7_Witness ==
    /\ ~Idle /\ IsDual(self) /\ active
    /\ KwKeys(kwargs) = {"bboxes"}
    /\ err = "KeyError"

\* C9: an invocation only appends to the histories: what an artifact's
\* history was before is a prefix of what it is after, a history once
\* attached stays, and the entries added are this transform's.
C9_AppendOnly ==
    \A o \in Objects :
        /\ pre[o].has => heap[o].has
        /\ IsPrefix(pre[o].transforms, heap[o].transforms)
        /\ \A j \in (Len(pre[o].transforms) + 1)..Len(heap[o].transforms) :
              heap[o].transforms[j].transform = self

\* a non-empty history was extended
C9_Witness ==
    \E o \in Objects :
        /\ Len(pre[o].transforms) >= 1
        /\ Len(heap[o].transforms) > Len(pre[o].transforms)

\* C10 as stated: an invocation that raises leaves every history as it was.
C10_Original == (~Idle /\ err # "none") => heap = pre

\* C10, amended: an invocation that raises before the dispatch loop (no
\* raster, no declared target) leaves every history as it was; one that
\* raises while dispatching a key leaves as they were the histories of the
\* artifacts that are stored neither under that key nor under a key before
\* it, and has only appended to the others.
C10_FailureEffects ==
    (~Idle /\ err # "none") =>
        /\ res = <<>>
        /\ errkey = 0 => heap = pre
        /\ \A o \in Objects \ ObjectsAt(1..errkey) : heap[o] = pre[o]
        /\ \A o \in Objects : IsPrefix(pre[o].transforms, heap[o].transforms)

\* an invocation raised at its second key after recording on the artifact
\* of its first
C10_Witness ==
    /\ ~Idle /\ err # "none"
    /\ errkey = 2
    /\ heap[kwargs[1][2]] # pre[kwargs[1][2]]

(***************************************************************************)
(* to_tuple as a state machine: the arguments are drawn, the call made     *)
(***************************************************************************)
Scalars == (-MaxScalar)..MaxScalar

ParamValues ==
    {[type |-> "None", v |-> 0, s |-> <<>>], [type |-> "str", v |-> 0, s |-> <<>>]}
    \cup {[type |-> "scalar", v |-> x, s |-> <<>>] : x \in Scalars}
    \cup {[type |-> "seq", v |-> 0, s |-> <<a, b>>] : a, b \in Scalars}
    \cup {[type |-> "seq", v |-> 0, s |-> <<1, 0, 2>>]}

OptValues == {NoneArg} \cup {Some(x) : x \in Scalars}

\* a fixed transform, for the specifications that invoke none
Bystander ==
    {[cls |-> "NoOp", impl |-> FALSE, deps |-> FALSE, p |-> 1, always_apply |-> FALSE]}

InitToTuple ==
    /\ InitCall(Bystander)
    /\ bx = IdleBX
    /\ tt \in {[called |-> FALSE, param |-> a, low |-> l, bias |-> b,
                out |-> Raise("none")] :
                 a \in ParamValues, l \in OptValues, b \in OptValues}

ToTuple ==
    /\ ~tt.called
    /\ tt' = [tt EXCEPT !.called = TRUE, !.out = to_tuple(tt.param, tt.low, tt.bias)]
    /\ UNCHANGED <<callvars, bx>>

NextToTuple == ToTuple

SpecToTuple == InitToTuple /\ [][NextToTuple]_vars

\* C8: to_tuple(s) = (-s, s); to_tuple(s, low=l) is l and s, the smaller
\* first; to_tuple(s, bias=b) = (b - s, b + s); a 2-element sequence without
\* bias comes back as it is; low and bias together raise ValueError and
\* return nothing, whatever param is.
C8_ToTuple ==
    tt.called =>
        LET s == tt.param.v
            l == tt.low.v
            b == tt.bias.v
        IN /\ (tt.low.some /\ tt.bias.some) =>
                  tt.out = [err |-> "ValueError", isNone |-> FALSE, val |-> <<>>]
           /\ (tt.param.type = "scalar" /\ ~tt.low.some /\ ~tt.bias.some) =>
                  tt.out.err = "none" /\ tt.out.val = <<-s, s>>
           /\ (tt.param.type = "scalar" /\ tt.low.some /\ ~tt.bias.some) =>
                  /\ tt.out.err = "none"
                  /\ tt.out.val = <<IF l <= s THEN l ELSE s, IF l <= s THEN s ELSE l>>
           /\ (tt.param.type = "scalar" /\ ~tt.low.some /\ tt.bias.some) =>
                  tt.out.err = "none" /\ tt.out.val = <<b - s, b + s>>
           /\ (tt.param.type = "seq" /\ Len(tt.param.s) = 2 /\ ~tt.bias.some) =>
                  tt.out.err = "none" /\ tt.out.val = tt.param.s

\* a scalar below its low came back behind it
C8_Witness ==
    /\ tt.called
    /\ tt.param.type = "scalar" /\ tt.low.some /\ ~tt.bias.some
    /\ tt.low.v > tt.param.v
    /\ tt.out.val = <<tt.param.v, tt.low.v>>

(***************************************************************************)
(* apply_to_bboxes and apply_to_keypoints as a state machine               *)
(***************************************************************************)
\* the geometric heads and the payload tails of the elements
Heads == {<<0, 0, 1, 1>>, <<1, 0, 2, 1>>}
Labels == {7, 8}
Tails == UNION {[1..n -> Labels] : n \in 0..MaxTail}
Elements == {h \o tl : h \in Heads, tl \in Tails}
Lists == UNION {[1..n -> Elements] : n \in 0..MaxBoxes}

\* the transforms whose lists are composed: the abstract DualTransform, an
\* overriding subclass and NoOp
Composers == {t \in Transforms : IsDual(t) /\ ~t.deps /\ t.p = 1 /\ ~t.always_apply}

InitBoxes ==
    /\ InitCall(Bystander)
    /\ tt = IdleTT
    /\ bx \in {[called |-> FALSE, target |-> k, t |-> t, list |-> l,
                params |-> [cols |-> 2, rows |-> 1],
                out |-> [err |-> "none", val |-> <<>>]] :
                 k \in {"bboxes", "keypoints"}, t \in Composers, l \in Lists}

ApplyToBboxes ==
    /\ ~bx.called /\ bx.target = "bboxes"
    /\ bx' = [bx EXCEPT !.called = TRUE,
                        !.out = apply_to_bboxes(bx.t, bx.list, bx.params)]
    /\ UNCHANGED <<callvars, tt>>

ApplyToKeypoints ==
    /\ ~bx.called /\ bx.target = "keypoints"
    /\ bx' = [bx EXCEPT !.called = TRUE,
                        !.out = apply_to_keypoints(bx.t, bx.list, bx.params)]
    /\ UNCHANGED <<callvars, tt>>

NextBoxes == ApplyToBboxes \/ ApplyToKeypoints

SpecBoxes == InitBoxes /\ [][NextBoxes]_vars

\* the geometry primitive of the transform for the list's kind
Primitive(head) ==
    IF bx.target = "bboxes" THEN apply_to_bbox(bx.t, head, bx.params)
    ELSE apply_to_keypoint(bx.t, head, bx.params)

\* C4: when the primitive returns a 4-element list, the result has the
\* length of the input, and its element i is the primitive of the first four
\* fields of input element i followed by that element's fields 5.., as they
\* were and in their order.
C4_Composition ==
    (bx.called /\ (bx.t.impl \/ bx.t.cls = "NoOp")) =>
        /\ bx.out.err = "none"
        /\ Len(bx.out.val) = Len(bx.list)
        /\ \A i \in 1..Len(bx.list) :
              bx.out.val[i] =
                  Primitive(SubSeq(bx.list[i], 1, 4)).val
                      \o SubSeq(bx.list[i], 5, Len(bx.list[i]))

\* two boxes with different payloads went through a flip
C4_Witness ==
    /\ bx.called /\ bx.t.impl
    /\ Len(bx.list) = 2
    /\ Len(bx.list[1]) > 4 /\ Len(bx.list[2]) > 4
    /\ SubSeq(bx.list[1], 5, Len(bx.list[1])) # SubSeq(bx.list[2], 5, Len(bx.list[2]))
    /\ SubSeq(bx.out.val[1], 1, 4) # SubSeq(bx.list[1], 1, 4)
    /\ Len(bx.out.val) = 2

====
